---- MODULE Spec2Model ----
\* State-machine model of the PSYCHE-7 client (src/App.tsx) and of the gateway
\* it calls (src/services/geminiService.ts).
\*
\* Strings are sequences of pieces: the empty string is << >>, concatenation is
\* \o and length is Len.  A username is a sequence of one-character pieces.
\* null is the record Null; an Error object is a record that may lack its
\* message field.
\*
\* The state updates one handler, timer callback or promise continuation makes
\* are committed together, as React batches them, and the effect on
\* [currentQuestionIndex, state] runs with that commit.  A click is handled
\* against the view of the committed state.  localStorage.setItem and the
\* JSON.parse of a stored leaderboard are taken not to throw.
EXTENDS Integers, Sequences, FiniteSets, TLC

VARIABLES
    state,                \* useState<AppState>                     App.tsx:7
    username,             \* useState('')                           App.tsx:8
    questions,            \* useState<Question[]>                   App.tsx:9
    answers,              \* useState<Answer[]>                     App.tsx:10
    currentQuestionIndex, \* useState(0)                            App.tsx:11
    report,               \* useState<PersonalityReport | null>     App.tsx:12
    errorMsg,             \* useState('')                           App.tsx:13
    loadingProgress,      \* useState(0)                            App.tsx:14
    leaderboard,          \* useState<LeaderboardEntry[]>           App.tsx:15
    questionStartTime,    \* useRef<number>(0)                      App.tsx:18
    storage,              \* localStorage item 'psyche7_leaderboard'
    apiKey,               \* process.env.API_KEY is set             geminiService.ts:6
    now,                  \* Date.now(), counted from the mount
    mounted,              \* the mount effects have run
    sessions,             \* number of startAssessment invocations so far
    calls,                \* gateway promises not yet settled, with their closures
    intervals,            \* setInterval handles not yet cleared
    timeouts,             \* setTimeout callbacks not yet fired
    lastReply             \* history: how the gateway call issued last settled,
                          \* Null while it has not

vars ==
    << state, username, questions, answers, currentQuestionIndex, report,
       errorMsg, loadingProgress, leaderboard, questionStartTime, storage,
       apiKey, now, mounted, sessions, calls, intervals, timeouts, lastReply >>

-----------------------------------------------------------------------------
\* Bounds of the model.

\* longest question set the external model returns
MaxQ == 2
\* assessments started in one run of the application
MaxSessions == 2
\* clock readings are 0 .. MaxTime
MaxTime == 1
\* Spec follows a ticker while the progress value is at most this; SpecTicker
\* follows it all the way
TickWindow == 1

-----------------------------------------------------------------------------
\* Program constants.

ProgressCeiling == 90
ProgressDone == 100
GenerateSpread == 5
AnalyzeSpread == 2
LoginGuardLength == 2
SubmitDisabledBelow == 3
LeaderboardSize == 10

QuestionCount == {20, 50, 100}

AppState ==
    { "BOOTING", "AUTH", "MENU", "GENERATING", "ASSESSMENT", "ANALYZING",
      "RESULT", "LEADERBOARD", "ERROR" }

\* null, and an absent localStorage item
Null == [null |-> TRUE]

Min(a, b) == IF a < b THEN a ELSE b

Range(s) == { s[i] : i \in 1..Len(s) }

SeqsUpTo(S, n) == UNION { [1..k -> S] : k \in 0..n }

-----------------------------------------------------------------------------
\* Codename field.

\* String.prototype.toUpperCase, on the characters the model types
UpperChar(c) == IF c = "a" THEN "A" ELSE c

ToUpperCase(s) == [i \in 1..Len(s) |-> UpperChar(s[i])]

IsSpace(c) == c = " "

RECURSIVE TrimStart(_)
TrimStart(s) ==
    IF s # << >> /\ IsSpace(Head(s)) THEN TrimStart(Tail(s)) ELSE s

RECURSIVE TrimEnd(_)
TrimEnd(s) ==
    IF s # << >> /\ IsSpace(s[Len(s)])
    THEN TrimEnd(SubSeq(s, 1, Len(s) - 1))
    ELSE s

\* String.prototype.trim
Trim(s) == TrimEnd(TrimStart(s))

\* the guard of handleLogin
LoginGuard(u) == Len(Trim(u)) > LoginGuardLength

\* the disabled attribute of the ACCESS TERMINAL button
SubmitDisabled(u) == Len(u) < SubmitDisabledBelow

-----------------------------------------------------------------------------
\* Data of a session.

\* the questions the external model composes its answers from
QuestionPool ==
    { [id |-> 1, text |-> <<"T1">>, dimension |-> <<"D1">>,
       options |-> <<"x", "y", "x", "y">>],
      [id |-> 2, text |-> <<"T2">>, dimension |-> <<"D2">>,
       options |-> <<"x">>] }

\* the arrays a question-generation response can decode to
Payloads == SeqsUpTo(QuestionPool, MaxQ)

\* the stability scores an analysis response can carry
Scores == {85, 99}

\* the objects an analysis response can decode to
Analyses == { [score |-> s, confidenceScore |-> 70] : s \in Scores }

\* the errors the transport can throw: without a message, with an empty one,
\* with a cause
TransportErrors ==
    { [name |-> <<"Error">>],
      [name |-> <<"Error">>, message |-> << >>],
      [name |-> <<"Error">>, message |-> <<"timeout">>] }

\* what ai.models.generateContent can do for a request whose decoded payloads
\* are in the set values: throw, answer without text, answer with text that is
\* no JSON, answer with the JSON text of a value
Responses(values) ==
    { [kind |-> "throw", error |-> e] : e \in TransportErrors }
        \cup { [kind |-> "empty"], [kind |-> "malformed"] }
        \cup { [kind |-> "json", value |-> v] : v \in values }

GenerateResponses == Responses(Payloads)

AnalyzeResponses == Responses(Analyses)

Rejected(e) == [ok |-> FALSE, error |-> e]

Resolved(v) == [ok |-> TRUE, value |-> v]

\* getAIClient: throws when the environment holds no API key
GetAIClient(key) ==
    IF ~key
    THEN Rejected([name |-> <<"Error">>,
                   message |-> <<"API_KEY not found in environment.">>])
    ELSE Resolved(Null)

\* response.text, the !rawText test and JSON.parse(rawText) of both gateway
\* operations; noData is the message of the empty-text error
DecodeResponse(resp, noData) ==
    CASE resp.kind = "throw" -> Rejected(resp.error)
      [] resp.kind = "empty" ->
            Rejected([name |-> <<"Error">>, message |-> noData])
      [] resp.kind = "malformed" ->
            Rejected([name |-> <<"SyntaxError">>,
                      message |-> <<"Unexpected token">>])
      [] OTHER -> Resolved(resp.value)

\* generateAssessmentQuestions: the promise's outcome
GenerateAssessmentQuestions(key, resp) ==
    IF ~GetAIClient(key).ok
    THEN GetAIClient(key)
    ELSE DecodeResponse(resp, <<"No data received from construct.">>)

\* analyzePersonality: the promise's outcome; the decoded object is returned
\* with subjectName and generatedAt attached
AnalyzePersonality(key, resp, name, time) ==
    IF ~GetAIClient(key).ok
    THEN GetAIClient(key)
    ELSE LET decoded == DecodeResponse(resp, <<"Analysis Protocol Failed.">>)
         IN  IF ~decoded.ok
             THEN decoded
             ELSE Resolved([score |-> decoded.value.score,
                            confidenceScore |-> decoded.value.confidenceScore,
                            subjectName |-> name,
                            generatedAt |-> time])

\* err.message ?? fallback: an empty message is kept
MessageOrNullish(err, fallback) ==
    IF "message" \in DOMAIN err THEN err.message ELSE fallback

\* err.message || fallback
MessageOr(err, fallback) ==
    IF "message" \in DOMAIN err /\ err.message # << >>
    THEN err.message
    ELSE fallback

\* the template literal of startAssessment's catch block
ConnectionFailed(err) ==
    <<"CONNECTION FAILED: ">> \o MessageOr(err, <<"UNKNOWN ERROR">>)

\* the template literal of finishAssessment's catch block
AnalysisFailed(err) ==
    <<"ANALYSIS FAILED: ">> \o MessageOr(err, <<"DATA CORRUPTED">>)

-----------------------------------------------------------------------------
\* Leaderboard.

\* the seed in ascending order
SeedLeaderboardAscending(time) ==
    << [id |-> <<"3">>, username |-> <<"CIPHER">>, score |-> 85, date |-> time],
       [id |-> <<"2">>, username |-> <<"NEXUS">>, score |-> 92, date |-> time],
       [id |-> <<"1">>, username |-> <<"GHOST_01">>, score |-> 98, date |-> time] >>

\* the seed installed when storage holds no leaderboard
SeedLeaderboard(time) ==
    << [id |-> <<"1">>, username |-> <<"GHOST_01">>, score |-> 98, date |-> time],
       [id |-> <<"2">>, username |-> <<"NEXUS">>, score |-> 92, date |-> time],
       [id |-> <<"3">>, username |-> <<"CIPHER">>, score |-> 85, date |-> time] >>

\* JSON.stringify of one leaderboard entry: its members in the order the
\* object literals of App.tsx give them, each a << key, value >> pair
EntryToJson(e) ==
    << <<"id", e.id>>, <<"username", e.username>>, <<"score", e.score>>,
       <<"date", e.date>> >>

\* the value of member k in the text of one object
Member(o, k) == o[CHOOSE i \in DOMAIN o : o[i][1] = k][2]

\* JSON.parse of one object of a stored leaderboard, read as LeaderboardEntry
EntryFromJson(o) ==
    [id |-> Member(o, "id"), username |-> Member(o, "username"),
     score |-> Member(o, "score"), date |-> Member(o, "date")]

\* the texts of the entries of a board, one after the other
RECURSIVE EntriesToJson(_)
EntriesToJson(v) ==
    IF v = << >> THEN << >>
    ELSE << EntryToJson(Head(v)) >> \o EntriesToJson(Tail(v))

\* the entries the texts of a stored array decode to
RECURSIVE EntriesFromJson(_)
EntriesFromJson(t) ==
    IF t = << >> THEN << >>
    ELSE << EntryFromJson(Head(t)) >> \o EntriesFromJson(Tail(t))

\* a write that stores the first three entries only
JsonStringifyTopThree(v) == [json |-> EntriesToJson(SubSeq(v, 1, Min(Len(v), 3)))]

\* JSON.stringify of a leaderboard
JsonStringify(v) == [json |-> EntriesToJson(v)]

\* JSON.parse of a stored leaderboard
JsonParse(text) == EntriesFromJson(text.json)

\* the sort step that puts e in front of the entries with its score
RECURSIVE InsertBeforeTies(_, _)
InsertBeforeTies(sorted, e) ==
    IF sorted = << >> THEN << e >>
    ELSE IF Head(sorted).score > e.score
         THEN << Head(sorted) >> \o InsertBeforeTies(Tail(sorted), e)
         ELSE << e >> \o sorted

\* one step of the sort: e goes behind every entry the comparator
\* (a, b) => b.score - a.score does not put behind it
RECURSIVE InsertByScore(_, _)
InsertByScore(sorted, e) ==
    IF sorted = << >> THEN << e >>
    ELSE IF Head(sorted).score >= e.score
         THEN << Head(sorted) >> \o InsertByScore(Tail(sorted), e)
         ELSE << e >> \o sorted

\* Array.prototype.sort with that comparator (the sort is stable)
RECURSIVE SortByScore(_)
SortByScore(s) ==
    IF s = << >> THEN << >>
    ELSE InsertByScore(SortByScore(SubSeq(s, 1, Len(s) - 1)), s[Len(s)])

\* the slice that keeps every entry
SliceAll(s, n) == s

\* Array.prototype.slice(0, n)
Slice(s, n) == SubSeq(s, 1, Min(Len(s), n))

\* the update that drops the new entry
UpdatedLeaderboardUnrecorded(board, entry) == board

\* [...leaderboard, newEntry].sort(...).slice(0, 10)
UpdatedLeaderboard(board, entry) ==
    Slice(SortByScore(Append(board, entry)), LeaderboardSize)

\* the load effect that re-stamps the seed on every load instead of keeping
\* the stored one
LoadSeedAlways(store, time) ==
    [board |-> SeedLeaderboard(time),
     store |-> JsonStringify(SeedLeaderboard(time))]

\* the leaderboard effect run on mount, as a function of the stored item and
\* of Date.now(): the board it puts in the state and the item it leaves stored
Load(store, time) ==
    IF store # Null
    THEN [board |-> JsonParse(store), store |-> store]
    ELSE [board |-> SeedLeaderboard(time),
          store |-> JsonStringify(SeedLeaderboard(time))]

\* what localStorage can hold when the application starts: nothing
InitialStorage == { Null }

\* an entry an earlier run of the application recorded
EarlierEntry(k, score) ==
    [id |-> <<"old", k>>, username |-> <<"AAA">>, score |-> score, date |-> 0]

\* the board after the entries have been recorded on it one after the other
RECURSIVE RecordAll(_, _)
RecordAll(board, entries) ==
    IF entries = << >> THEN board
    ELSE RecordAll(UpdatedLeaderboard(board, Head(entries)), Tail(entries))

\* the board an earlier run left after six completed sessions: nine entries,
\* 98 95 92 92 90 85 85 80 80
NineBoard ==
    RecordAll(SeedLeaderboard(0),
              << EarlierEntry(1, 95), EarlierEntry(2, 92), EarlierEntry(3, 90),
                 EarlierEntry(4, 85), EarlierEntry(5, 80), EarlierEntry(6, 80) >>)

\* the board after a seventh: ten entries, 98 95 92 92 90 88 85 85 80 80
FullBoard == RecordAll(NineBoard, << EarlierEntry(7, 88) >>)

\* what localStorage can hold when the application starts after earlier runs
StoredLeaderboards ==
    { Null, JsonStringify(NineBoard), JsonStringify(FullBoard) }

-----------------------------------------------------------------------------
\* Initial state: the component function has run once, its effects have not.

Init ==
    /\ state = "BOOTING"
    /\ username = << >>
    /\ questions = << >>
    /\ answers = << >>
    /\ currentQuestionIndex = 0
    /\ report = Null
    /\ errorMsg = << >>
    /\ loadingProgress = 0
    /\ leaderboard = << >>
    /\ questionStartTime = 0
    /\ storage \in InitialStorage
    /\ apiKey \in BOOLEAN
    /\ now = 0
    /\ mounted = FALSE
    /\ sessions = 0
    /\ calls = {}
    /\ intervals = {}
    /\ timeouts = {}
    /\ lastReply = Null

-----------------------------------------------------------------------------
\* What the component renders in each lifecycle state (the return statement of
\* App): a handler can run only while the view that holds its control is shown.

\* the login form on screen during the boot sequence too
AuthVisibleWhileBooting == state \in { "BOOTING", "AUTH" }

AuthVisible == state = "AUTH"

\* the menu left on screen while the questions are generated
MenuVisibleWhileGenerating == state \in { "MENU", "GENERATING" }

MenuVisible == state = "MENU"

AssessmentVisible == state = "ASSESSMENT"

ResultVisible == state = "RESULT"

\* the REBOOT SYSTEM button offered on the loading screen too
ErrorVisibleWhileLoading == state \in { "ERROR", "GENERATING", "ANALYZING" }

ErrorVisible == state = "ERROR"

\* renderAssessment's q: the question on screen, Null when nothing is rendered
DisplayedQuestion ==
    IF ~AssessmentVisible \/ Len(questions) = 0
          \/ currentQuestionIndex >= Len(questions)
    THEN Null
    ELSE questions[currentQuestionIndex + 1]

\* the progress prop of the EVALUATION PROGRESS bar, rounded as LoadingBar
\* prints it; -1 when no bar is rendered
EvaluationProgress ==
    IF DisplayedQuestion = Null THEN -1
    ELSE (currentQuestionIndex * 100) \div Len(questions)

\* the effect with currentQuestionIndex as its only dependency
ResetTimerOnIndexOnly(idx0, state0, idx1, state1, time) ==
    IF idx0 # idx1 /\ state1 = "ASSESSMENT"
    THEN time
    ELSE questionStartTime

\* the effect on [currentQuestionIndex, state]: the value of
\* questionStartTime.current after a render that changed idx0, state0 into
\* idx1, state1 at clock reading time
ResetTimer(idx0, state0, idx1, state1, time) ==
    IF (idx0 # idx1 \/ state0 # state1) /\ state1 = "ASSESSMENT"
    THEN time
    ELSE questionStartTime

\* the interval left running
ClearIntervalForgotten(handle) == intervals

\* clearInterval(interval)
ClearInterval(handle) == intervals \ { handle }

\* the tick without its ceiling
TickValueUnclamped(prev, draw) == prev + draw

\* Math.min(prev + Math.random() * spread, 90), draw being Math.random() * spread
TickValue(prev, draw) == Min(prev + draw, ProgressCeiling)

\* the values Math.random() * spread takes, to the unit
Draws(kind) ==
    IF kind = "generate" THEN 0..(GenerateSpread - 1) ELSE 0..(AnalyzeSpread - 1)

\* handleAnswer's test with the last question taken for one more to come
MoreQuestionsOffByOne == currentQuestionIndex < Len(questions)

\* currentQuestionIndex < questions.length - 1
MoreQuestions == currentQuestionIndex < Len(questions) - 1

\* handleAnswer reading the first question whatever the index
CurrentQuestionFirst == questions[1]

\* handleAnswer's currentQ: questions[currentQuestionIndex]
CurrentQuestion == questions[currentQuestionIndex + 1]

\* startAssessment storing the new questions without resetting the index
StartSessionKeepsIndex(q) ==
    /\ questions' = q
    /\ answers' = << >>
    /\ UNCHANGED currentQuestionIndex

\* setQuestions(q); setAnswers([]); setCurrentQuestionIndex(0)
StartSession(q) ==
    /\ questions' = q
    /\ answers' = << >>
    /\ currentQuestionIndex' = 0

-----------------------------------------------------------------------------
\* Actions.

\* the two mount effects: the boot timer is armed and the leaderboard is loaded
Mount ==
    /\ ~mounted
    /\ mounted' = TRUE
    /\ timeouts' = timeouts \cup { [id |-> <<0, "boot">>, to |-> "AUTH"] }
    /\ leaderboard' = Load(storage, now).board
    /\ storage' = Load(storage, now).store
    /\ UNCHANGED << state, username, questions, answers, currentQuestionIndex,
                    report, errorMsg, loadingProgress, questionStartTime,
                    apiKey, now, sessions, calls, intervals, lastReply >>

\* a setTimeout callback fires: setState(t.to)
FireTimeout(t) ==
    /\ t \in timeouts
    /\ timeouts' = timeouts \ { t }
    /\ state' = t.to
    /\ questionStartTime' =
          ResetTimer(currentQuestionIndex, state, currentQuestionIndex, t.to, now)
    /\ UNCHANGED << username, questions, answers, currentQuestionIndex, report,
                    errorMsg, loadingProgress, leaderboard, storage, apiKey,
                    now, mounted, sessions, calls, intervals, lastReply >>

\* onChange of the codename field
SetUsername(raw) ==
    /\ AuthVisible
    /\ username' = ToUpperCase(raw)
    /\ UNCHANGED << state, questions, answers, currentQuestionIndex, report,
                    errorMsg, loadingProgress, leaderboard, questionStartTime,
                    storage, apiKey, now, mounted, sessions, calls, intervals,
                    timeouts, lastReply >>

\* the form is submitted: the browser submits only through an enabled button
HandleLogin ==
    /\ AuthVisible
    /\ ~SubmitDisabled(username)
    /\ state' = IF LoginGuard(username) THEN "MENU" ELSE state
    /\ UNCHANGED << username, questions, answers, currentQuestionIndex, report,
                    errorMsg, loadingProgress, leaderboard, questionStartTime,
                    storage, apiKey, now, mounted, sessions, calls, intervals,
                    timeouts, lastReply >>

\* startAssessment(count), up to its await
StartAssessment(count) ==
    /\ MenuVisible
    /\ sessions < MaxSessions
    /\ LET id == << sessions + 1, "generate" >>
           handle == [id |-> id, kind |-> "generate"]
       IN  /\ state' = "GENERATING"
           /\ loadingProgress' = 0
           /\ errorMsg' = << >>
           /\ intervals' = intervals \cup { handle }
           /\ calls' = calls \cup
                 { [id |-> id, kind |-> "generate", count |-> count,
                    interval |-> handle] }
    /\ sessions' = sessions + 1
    /\ lastReply' = Null
    /\ UNCHANGED << username, questions, answers, currentQuestionIndex, report,
                    leaderboard, questionStartTime, storage, apiKey, now,
                    mounted, timeouts >>

\* a setInterval callback fires
ProgressTick(handle, draw) ==
    /\ handle \in intervals
    /\ draw \in Draws(handle.kind)
    /\ loadingProgress' = TickValue(loadingProgress, draw)
    /\ UNCHANGED << state, username, questions, answers, currentQuestionIndex,
                    report, errorMsg, leaderboard, questionStartTime, storage,
                    apiKey, now, mounted, sessions, calls, intervals, timeouts,
                    lastReply >>

\* startAssessment after its await, the promise resolved
GenerateResolved(c, resp) ==
    /\ c \in calls
    /\ c.kind = "generate"
    /\ LET out == GenerateAssessmentQuestions(apiKey, resp)
       IN  /\ out.ok
           /\ intervals' = ClearInterval(c.interval)
           /\ loadingProgress' = ProgressDone
           /\ StartSession(out.value)
           /\ timeouts' = timeouts \cup { [id |-> c.id, to |-> "ASSESSMENT"] }
           /\ questionStartTime' =
                 ResetTimer(currentQuestionIndex, state,
                            currentQuestionIndex', state, now)
           /\ lastReply' = [id |-> c.id, kind |-> c.kind, outcome |-> out]
    /\ calls' = calls \ { c }
    /\ UNCHANGED << state, username, report, errorMsg, leaderboard, storage,
                    apiKey, now, mounted, sessions >>

\* a gateway that issues the request again when an attempt fails
GenerateRejectedAndRetried(c, resp) ==
    /\ c \in calls
    /\ c.kind = "generate"
    /\ ~GenerateAssessmentQuestions(apiKey, resp).ok
    /\ calls' = (calls \ { c }) \cup { [c EXCEPT !.id = << c.id[1], "retry" >>] }
    /\ UNCHANGED << state, username, questions, answers, currentQuestionIndex,
                    report, errorMsg, loadingProgress, leaderboard,
                    questionStartTime, storage, apiKey, now, mounted, sessions,
                    intervals, timeouts, lastReply >>

\* startAssessment after its await, the promise rejected
GenerateRejected(c, resp) ==
    /\ c \in calls
    /\ c.kind = "generate"
    /\ LET out == GenerateAssessmentQuestions(apiKey, resp)
       IN  /\ ~out.ok
           /\ intervals' = ClearInterval(c.interval)
           /\ errorMsg' = ConnectionFailed(out.error)
           /\ state' = "ERROR"
           /\ lastReply' = [id |-> c.id, kind |-> c.kind, outcome |-> out]
    /\ calls' = calls \ { c }
    /\ UNCHANGED << username, questions, answers, currentQuestionIndex, report,
                    loadingProgress, leaderboard, questionStartTime, storage,
                    apiKey, now, mounted, sessions, timeouts >>

\* handleAnswer(option), with finishAssessment up to its await when the answer
\* is the last one
HandleAnswer(option) ==
    /\ AssessmentVisible
    /\ DisplayedQuestion # Null
    /\ option \in Range(DisplayedQuestion.options)
    /\ LET currentQ == CurrentQuestion
           newAnswer == [questionId |-> currentQ.id,
                         questionText |-> currentQ.text,
                         dimension |-> currentQ.dimension,
                         selectedOption |-> option,
                         timeTaken |-> now - questionStartTime]
           id == << sessions, "analyze" >>
           handle == [id |-> id, kind |-> "analyze"]
       IN  /\ answers' = Append(answers, newAnswer)
           /\ IF MoreQuestions
              THEN /\ currentQuestionIndex' = currentQuestionIndex + 1
                   /\ questionStartTime' =
                         ResetTimer(currentQuestionIndex, state,
                                    currentQuestionIndex + 1, state, now)
                   /\ UNCHANGED << state, loadingProgress, intervals, calls,
                                   lastReply >>
              ELSE /\ state' = "ANALYZING"
                   /\ loadingProgress' = 0
                   /\ intervals' = intervals \cup { handle }
                   /\ calls' = calls \cup
                         { [id |-> id, kind |-> "analyze",
                            answers |-> Append(answers, newAnswer),
                            username |-> username,
                            leaderboard |-> leaderboard,
                            interval |-> handle] }
                   /\ questionStartTime' =
                         ResetTimer(currentQuestionIndex, state,
                                    currentQuestionIndex, "ANALYZING", now)
                   /\ lastReply' = Null
                   /\ UNCHANGED currentQuestionIndex
    /\ UNCHANGED << username, questions, report, errorMsg, leaderboard,
                    storage, apiKey, now, mounted, sessions, timeouts >>

\* finishAssessment after its await, the promise resolved
AnalyzeResolved(c, resp) ==
    /\ c \in calls
    /\ c.kind = "analyze"
    /\ LET out == AnalyzePersonality(apiKey, resp, c.username, now)
           newEntry == [id |-> << "rnd", c.id[1] >>,
                        username |-> c.username,
                        score |-> out.value.score,
                        date |-> now]
           updatedLB == UpdatedLeaderboard(c.leaderboard, newEntry)
       IN  /\ out.ok
           /\ intervals' = ClearInterval(c.interval)
           /\ loadingProgress' = ProgressDone
           /\ report' = out.value
           /\ leaderboard' = updatedLB
           /\ storage' = JsonStringify(updatedLB)
           /\ timeouts' = timeouts \cup { [id |-> c.id, to |-> "RESULT"] }
           /\ lastReply' = [id |-> c.id, kind |-> c.kind, outcome |-> out]
    /\ calls' = calls \ { c }
    /\ UNCHANGED << state, username, questions, answers, currentQuestionIndex,
                    errorMsg, questionStartTime, apiKey, now, mounted,
                    sessions >>

\* finishAssessment's catch block putting the progress value back to 0
AnalyzeRejectedProgressReset(c, resp) ==
    /\ c \in calls
    /\ c.kind = "analyze"
    /\ LET out == AnalyzePersonality(apiKey, resp, c.username, now)
       IN  /\ ~out.ok
           /\ intervals' = ClearInterval(c.interval)
           /\ errorMsg' = AnalysisFailed(out.error)
           /\ state' = "ERROR"
           /\ lastReply' = [id |-> c.id, kind |-> c.kind, outcome |-> out]
    /\ calls' = calls \ { c }
    /\ loadingProgress' = 0
    /\ UNCHANGED << username, questions, answers, currentQuestionIndex, report,
                    leaderboard, questionStartTime, storage, apiKey, now,
                    mounted, sessions, timeouts >>

\* finishAssessment's catch block dropping the report of the last session
AnalyzeRejectedReportCleared(c, resp) ==
    /\ c \in calls
    /\ c.kind = "analyze"
    /\ LET out == AnalyzePersonality(apiKey, resp, c.username, now)
       IN  /\ ~out.ok
           /\ intervals' = ClearInterval(c.interval)
           /\ errorMsg' = AnalysisFailed(out.error)
           /\ state' = "ERROR"
           /\ lastReply' = [id |-> c.id, kind |-> c.kind, outcome |-> out]
    /\ calls' = calls \ { c }
    /\ report' = Null
    /\ UNCHANGED << username, questions, answers, currentQuestionIndex,
                    loadingProgress, leaderboard, questionStartTime, storage,
                    apiKey, now, mounted, sessions, timeouts >>

\* finishAssessment after its await, the promise rejected
AnalyzeRejected(c, resp) ==
    /\ c \in calls
    /\ c.kind = "analyze"
    /\ LET out == AnalyzePersonality(apiKey, resp, c.username, now)
       IN  /\ ~out.ok
           /\ intervals' = ClearInterval(c.interval)
           /\ errorMsg' = AnalysisFailed(out.error)
           /\ state' = "ERROR"
           /\ lastReply' = [id |-> c.id, kind |-> c.kind, outcome |-> out]
    /\ calls' = calls \ { c }
    /\ UNCHANGED << username, questions, answers, currentQuestionIndex, report,
                    loadingProgress, leaderboard, questionStartTime, storage,
                    apiKey, now, mounted, sessions, timeouts >>

\* CLOSE DOSSIER
CloseDossier ==
    /\ ResultVisible
    /\ report # Null
    /\ state' = "MENU"
    /\ UNCHANGED << username, questions, answers, currentQuestionIndex, report,
                    errorMsg, loadingProgress, leaderboard, questionStartTime,
                    storage, apiKey, now, mounted, sessions, calls, intervals,
                    timeouts, lastReply >>

\* REBOOT SYSTEM taking the user back to the login screen
RebootSystemToAuth ==
    /\ ErrorVisible
    /\ state' = "AUTH"
    /\ UNCHANGED << username, questions, answers, currentQuestionIndex, report,
                    errorMsg, loadingProgress, leaderboard, questionStartTime,
                    storage, apiKey, now, mounted, sessions, calls, intervals,
                    timeouts, lastReply >>

\* REBOOT SYSTEM
RebootSystem ==
    /\ ErrorVisible
    /\ state' = "MENU"
    /\ UNCHANGED << username, questions, answers, currentQuestionIndex, report,
                    errorMsg, loadingProgress, leaderboard, questionStartTime,
                    storage, apiKey, now, mounted, sessions, calls, intervals,
                    timeouts, lastReply >>

\* the clock advances
AdvanceTime ==
    /\ mounted
    /\ now < MaxTime
    /\ now' = now + 1
    /\ UNCHANGED << state, username, questions, answers, currentQuestionIndex,
                    report, errorMsg, loadingProgress, leaderboard,
                    questionStartTime, storage, apiKey, mounted, sessions,
                    calls, intervals, timeouts, lastReply >>

\* the page is reloaded: the component state, the timers and the pending
\* promises go with the old page, localStorage stays
Reload ==
    /\ mounted
    /\ state' = "BOOTING"
    /\ username' = << >>
    /\ questions' = << >>
    /\ answers' = << >>
    /\ currentQuestionIndex' = 0
    /\ report' = Null
    /\ errorMsg' = << >>
    /\ loadingProgress' = 0
    /\ leaderboard' = << >>
    /\ questionStartTime' = 0
    /\ mounted' = FALSE
    /\ calls' = {}
    /\ intervals' = {}
    /\ timeouts' = {}
    /\ lastReply' = Null
    /\ UNCHANGED << storage, apiKey, now, sessions >>

-----------------------------------------------------------------------------
\* Specifications.

\* One step of the program with its inputs drawn from the given sets: the text
\* typed into the codename field, the gateway's responses to the two requests,
\* and the largest progress value up to which a ticker is followed.
NextOver(names, genResponses, anaResponses, window) ==
    \/ Mount
    \/ \E t \in timeouts : FireTimeout(t)
    \/ \E raw \in names : SetUsername(raw)
    \/ HandleLogin
    \/ \E count \in QuestionCount : StartAssessment(count)
    \/ \E h \in intervals : \E d \in Draws(h.kind) :
          /\ TickValue(loadingProgress, d) <= window
          /\ ProgressTick(h, d)
    \/ \E c \in calls : \E resp \in genResponses : GenerateResolved(c, resp)
    \/ \E c \in calls : \E resp \in genResponses : GenerateRejected(c, resp)
    \/ \E option \in {"x", "y"} : HandleAnswer(option)
    \/ \E c \in calls : \E resp \in anaResponses : AnalyzeResolved(c, resp)
    \/ \E c \in calls : \E resp \in anaResponses : AnalyzeRejected(c, resp)
    \/ CloseDossier
    \/ RebootSystem

\* the texts typed into the codename field: one the button is disabled for,
\* one the button lets through and the guard stops, one that logs in
SpecNames == { <<"a", "a">>, <<"a", "a", " ">>, <<"a", "a", "a">> }

\* Spec: every question set and every response of the gateway; a ticker is
\* followed while the progress value stays within TickWindow.
Next ==
    \/ NextOver(SpecNames, GenerateResponses, AnalyzeResponses, TickWindow)
    \/ AdvanceTime

Spec == Init /\ [][Next]_vars

\* SpecTicker: every tick of both tickers, the clock standing still, for one
\* codename, one question set and one analysis.
TickerNames == { <<"a", "a", "a">> }

TickerPayloads == { << [id |-> 2, text |-> <<"T2">>, dimension |-> <<"D2">>,
                       options |-> <<"x">>] >> }

TickerAnalyses == { [score |-> 85, confidenceScore |-> 70] }

TickerGenerateResponses == Responses(TickerPayloads)

TickerAnalyzeResponses == Responses(TickerAnalyses)

NextTicker ==
    NextOver(TickerNames, TickerGenerateResponses, TickerAnalyzeResponses,
             ProgressDone)

SpecTicker == Init /\ [][NextTicker]_vars

\* SpecBoard: the leaderboard across runs of the application.  The application
\* starts on what an earlier run stored, the page can be reloaded, and the
\* analysis scores fall below, on and above the scores already on the board;
\* one codename, one question set, a gateway that has its key.
InitBoard ==
    /\ state = "BOOTING"
    /\ username = << >>
    /\ questions = << >>
    /\ answers = << >>
    /\ currentQuestionIndex = 0
    /\ report = Null
    /\ errorMsg = << >>
    /\ loadingProgress = 0
    /\ leaderboard = << >>
    /\ questionStartTime = 0
    /\ storage \in StoredLeaderboards
    /\ apiKey = TRUE
    /\ now = 0
    /\ mounted = FALSE
    /\ sessions = 0
    /\ calls = {}
    /\ intervals = {}
    /\ timeouts = {}
    /\ lastReply = Null

BoardScores == {70, 80, 85, 99}

BoardAnalyses == { [score |-> s, confidenceScore |-> 70] : s \in BoardScores }

BoardAnalyzeResponses == Responses(BoardAnalyses)

NextBoard ==
    \/ NextOver(TickerNames, TickerGenerateResponses, BoardAnalyzeResponses,
                TickWindow)
    \/ AdvanceTime
    \/ Reload

SpecBoard == InitBoard /\ [][NextBoard]_vars

\* SpecBoot: Spec's steps on one question set and one analysis, with the
\* scheduling the runtime gives: the effects of the first render run, and a
\* timer that is armed fires, the component staying mounted.
NextBoot ==
    \/ NextOver(SpecNames, TickerGenerateResponses, TickerAnalyzeResponses,
                TickWindow)
    \/ AdvanceTime

SpecBoot ==
    /\ Init
    /\ [][NextBoot]_vars
    /\ WF_vars(Mount)
    /\ WF_vars(\E t \in timeouts : FireTimeout(t))

-----------------------------------------------------------------------------
\* Properties.

Loading == { "GENERATING", "ANALYZING" }

AllowedTransitions ==
    { <<"BOOTING", "AUTH">>, <<"AUTH", "MENU">>, <<"MENU", "GENERATING">>,
      <<"GENERATING", "ASSESSMENT">>, <<"GENERATING", "ERROR">>,
      <<"ASSESSMENT", "ANALYZING">>, <<"ANALYZING", "RESULT">>,
      <<"ANALYZING", "ERROR">>, <<"RESULT", "MENU">>, <<"ERROR", "MENU">> }

\* C1: the lifecycle state changes only along the ten listed transitions, so
\* LEADERBOARD is never entered and BOOTING and AUTH are never re-entered.
C1_OnlyListedTransitions ==
    /\ [](state \in AppState \ { "LEADERBOARD" })
    /\ [][state' # state => << state, state' >> \in AllowedTransitions]_vars
    /\ [][state' \in { "BOOTING", "AUTH" } => state \in { "BOOTING", state' }]_vars

\* a second session has failed after a first one was completed and dismissed,
\* and the user is back in the menu
C1_Witness ==
    /\ state = "MENU"
    /\ sessions = 2
    /\ report # Null
    /\ errorMsg # << >>

\* C2: 0 <= currentQuestionIndex <= questions.length in every state, and
\* answers.length = currentQuestionIndex in every ASSESSMENT state, in every
\* session.
C2_IndexWithinQuestions ==
    /\ 0 <= currentQuestionIndex
    /\ currentQuestionIndex <= Len(questions)
    /\ state = "ASSESSMENT" => Len(answers) = currentQuestionIndex

\* the second question of a second session is on screen, the first session
\* having been completed
C2_Witness ==
    /\ state = "ASSESSMENT"
    /\ sessions = 2
    /\ report # Null
    /\ currentQuestionIndex = 1

\* C3: whenever ASSESSMENT is entered the questions are those the gateway just
\* returned, there are no answers, the index is 0, and the first question is
\* on screen with the evaluation progress bar at 0%.
C3_AssessmentStartsAtFirstQuestion ==
    [][state # "ASSESSMENT" /\ state' = "ASSESSMENT" =>
          /\ lastReply' # Null
          /\ lastReply'.kind = "generate"
          /\ lastReply'.outcome.ok
          /\ questions' = lastReply'.outcome.value
          /\ answers' = << >>
          /\ currentQuestionIndex' = 0
          /\ DisplayedQuestion' # Null
          /\ DisplayedQuestion' = Head(questions')
          /\ EvaluationProgress' = 0]_vars

\* C4: handleAnswer is append-only within a session: a step that changes the
\* answers, other than startAssessment's reset when the next question set
\* arrives, adds exactly one answer behind the earlier ones; and the nth answer
\* carries the id of the nth question.
C4_AnswersAppendOnly ==
    /\ [][answers' # answers =>
             \/ state = "GENERATING" /\ answers' = << >>
             \/ /\ state = "ASSESSMENT"
                /\ Len(answers') = Len(answers) + 1
                /\ SubSeq(answers', 1, Len(answers)) = answers]_vars
    /\ [](\A n \in 1..Len(answers) :
             /\ n <= Len(questions)
             /\ answers[n].questionId = questions[n].id)

\* two questions with different ids were answered, the second one first in the
\* pool's numbering
C4_Witness ==
    /\ Len(answers) = 2
    /\ answers[1].questionId = 2
    /\ answers[2].questionId = 1

\* C5: an answer given in ASSESSMENT leads to ANALYZING exactly when it answers
\* the last question, and then the analysis call receives one answer per
\* question, in question order, the last answer included; any other answer
\* keeps ASSESSMENT and advances the index by one.
C5_FinalAnswerStartsAnalysis ==
    /\ [][state = "ASSESSMENT" /\ answers' # answers =>
             IF currentQuestionIndex = Len(questions) - 1
             THEN /\ state' = "ANALYZING"
                  /\ \E c \in calls' \ calls :
                        /\ c.kind = "analyze"
                        /\ c.answers = answers'
                        /\ Len(c.answers) = Len(questions)
                        /\ \A n \in 1..Len(questions) :
                              c.answers[n].questionId = questions[n].id
             ELSE /\ state' = "ASSESSMENT"
                  /\ currentQuestionIndex' = currentQuestionIndex + 1]_vars
    /\ [][state = "ASSESSMENT" /\ state' # "ASSESSMENT" =>
             /\ state' = "ANALYZING"
             /\ answers' # answers
             /\ currentQuestionIndex = Len(questions) - 1]_vars

\* the analysis of a two-question set is outstanding
C5_Witness ==
    /\ state = "ANALYZING"
    /\ \E c \in calls : c.kind = "analyze" /\ Len(c.answers) = 2

\* C6: a login submission in AUTH moves the state to MENU if and only if the
\* username has length 3 or more, whatever the username.
C6_LoginIffThreeCharacters ==
    state = "AUTH" =>
        ((ENABLED (HandleLogin /\ state' = "MENU")) <=> Len(username) >= 3)

\* C7: at most one gateway call is unresolved, only in GENERATING or ANALYZING,
\* and no call is issued while one is unresolved or while the state is one of
\* those two.
C7_OneCallOutstanding ==
    /\ [](Cardinality(calls) <= 1)
    /\ [](calls # {} => state \in Loading)
    /\ [][calls' \ calls # {} => calls = {} /\ state \notin Loading]_vars

\* the analysis call of a second session is the one call outstanding
C7_Witness ==
    /\ state = "ANALYZING"
    /\ sessions = 2
    /\ Cardinality(calls) = 1

\* C8: while a gateway call is outstanding the progress value starts at 0, no
\* tick lowers it and it stays at or below 90; it exceeds 90 only as the 100
\* set after a call resolved successfully.
C8_ProgressBelowCeiling ==
    /\ [](calls # {} => loadingProgress <= 90)
    /\ [](loadingProgress > 90 =>
             /\ loadingProgress = 100
             /\ lastReply # Null
             /\ lastReply.outcome.ok)
    /\ [][calls' \ calls # {} => loadingProgress' = 0]_vars
    /\ [][calls # {} /\ calls' = calls =>
             loadingProgress <= loadingProgress']_vars

\* the analysis ticker has reached the ceiling while its call is outstanding
C8_Witness ==
    /\ state = "ANALYZING"
    /\ calls # {}
    /\ loadingProgress = 90

\* C9: a ticker is active exactly while a gateway call is outstanding, so none
\* is active outside GENERATING and ANALYZING, never two at once, and the
\* progress value does not change between the settling of a call and the issue
\* of the next.
C9_TickerStoppedOnExit ==
    /\ [](intervals = { c.interval : c \in calls })
    /\ [](state \notin Loading => intervals = {})
    /\ [](Cardinality(intervals) <= 1)
    /\ [][calls = {} /\ calls' = {} => loadingProgress' = loadingProgress]_vars

\* a generation call failed after its ticker had run, and the ticker is gone
C9_Witness ==
    /\ state = "ERROR"
    /\ lastReply.kind = "generate"
    /\ loadingProgress > 0
    /\ intervals = {}

\* the message a failure e of a call of the given kind must produce
ExpectedMessage(kind, e) ==
    LET cause == IF "message" \in DOMAIN e /\ Len(e.message) > 0
                 THEN e.message
                 ELSE IF kind = "generate" THEN <<"UNKNOWN ERROR">>
                                           ELSE <<"DATA CORRUPTED">>
    IN  IF kind = "generate"
        THEN <<"CONNECTION FAILED: ">> \o cause
        ELSE <<"ANALYSIS FAILED: ">> \o cause

\* C10: a failing gateway call takes GENERATING (generation) or ANALYZING
\* (analysis) to ERROR in one step and nothing else enters ERROR; in ERROR the
\* message is the prefix of the call that failed last followed by its cause,
\* or by the fallback when the cause is absent or empty.
C10_FailureBecomesError ==
    /\ [](state = "ERROR" =>
             /\ lastReply # Null
             /\ ~lastReply.outcome.ok
             /\ errorMsg = ExpectedMessage(lastReply.kind, lastReply.outcome.error))
    /\ [][lastReply' # lastReply /\ lastReply' # Null /\ ~lastReply'.outcome.ok =>
             /\ state' = "ERROR"
             /\ state = IF lastReply'.kind = "generate" THEN "GENERATING"
                                                        ELSE "ANALYZING"]_vars
    /\ [][state' = "ERROR" /\ state # "ERROR" =>
             /\ lastReply' # lastReply
             /\ ~lastReply'.outcome.ok]_vars

\* the analysis of a second session failed without a cause, after the first
\* session had failed too
C10_Witness ==
    /\ state = "ERROR"
    /\ sessions = 2
    /\ report = Null
    /\ lastReply.kind = "analyze"
    /\ errorMsg = <<"ANALYSIS FAILED: ", "DATA CORRUPTED">>

\* C11: the one action ERROR offers returns to MENU, and after ERROR -> MENU
\* the questions and the answers of the failed session are gone from the
\* session state.
C11_RebootDiscardsSession ==
    /\ [][state = "ERROR" /\ state' # state => state' = "MENU"]_vars
    /\ [][state = "ERROR" /\ state' = "MENU" =>
             questions' = << >> /\ answers' = << >>]_vars

\* a board is in descending order of score
SortedByScore(board) ==
    \A i \in 1..(Len(board) - 1) : board[i].score >= board[i + 1].score

\* C12: after the load and after any number of recorded sessions the
\* leaderboard, in the state and in storage, has at most 10 entries and is in
\* descending order of score.
C12_BoardBoundedAndSorted ==
    mounted =>
        /\ Len(leaderboard) <= 10
        /\ SortedByScore(leaderboard)
        /\ storage # Null
        /\ Len(JsonParse(storage)) <= 10
        /\ SortedByScore(JsonParse(storage))

\* two sessions were recorded on a board that held nine entries: the first
\* filled it, the second pushed an entry out
C12_Witness ==
    /\ Len(leaderboard) = 10
    /\ \E i, j \in 1..10 :
          /\ leaderboard[i].id = <<"rnd", 1>>
          /\ leaderboard[j].id = <<"rnd", 2>>
    /\ \A i \in 1..10 : leaderboard[i].id # <<"old", 6>>
    /\ storage = JsonStringify(leaderboard)

\* C13: a load followed by a second load, with no session recorded between
\* them, returns the same board both times, whether storage was empty (the
\* second load returns the seed the first persisted, ids, scores and dates the
\* same, also when the clock has moved on by then) or held a board; and a load
\* leaves a stored board as it is.  Stated of the load effect on every storage
\* content the application reaches, and of every load the application performs.
C13_LoadIdempotent ==
    /\ [](\A t2 \in { now, now + 1 } :
             LET first == Load(storage, now)
                 second == Load(first.store, t2)
             IN  /\ second.board = first.board
                 /\ second.store = first.store
                 /\ storage # Null => first.store = storage)
    /\ [][~mounted /\ mounted' =>
             /\ leaderboard' = Load(storage, now).board
             /\ Load(storage', now').board = leaderboard'
             /\ storage # Null => storage' = storage]_vars

\* the page was reloaded after a session had been started on an empty storage,
\* and the second load, at a later clock reading, has returned the seed the
\* first load dated
C13_Witness ==
    /\ mounted
    /\ state = "BOOTING"
    /\ sessions > 0
    /\ now > 0
    /\ leaderboard = SeedLeaderboard(0)
    /\ storage = JsonStringify(SeedLeaderboard(0))

\* C14: a load that finds no leaderboard in storage installs exactly three
\* entries, GHOST_01 with 98, NEXUS with 92 and CIPHER with 85, in that order
\* and dated at the load, and after it the leaderboard in the state and the
\* stored one are both that seed.
C14_SeedOnEmptyStorage ==
    [][~mounted /\ mounted' /\ storage = Null =>
          /\ Len(leaderboard') = 3
          /\ [i \in 1..3 |-> leaderboard'[i].username] =
                << <<"GHOST_01">>, <<"NEXUS">>, <<"CIPHER">> >>
          /\ [i \in 1..3 |-> leaderboard'[i].score] = << 98, 92, 85 >>
          /\ \A i \in 1..3 : leaderboard'[i].date = now
          /\ storage' # Null
          /\ JsonParse(storage') = leaderboard']_vars

\* the first load has run on an empty storage and nothing else has happened
C14_Witness ==
    /\ mounted
    /\ state = "BOOTING"
    /\ sessions = 0
    /\ Len(leaderboard) = 3
    /\ leaderboard[1].id = <<"1">>
    /\ storage = JsonStringify(leaderboard)

\* s with e put in at position p
InsertAt(s, p, e) == SubSeq(s, 1, p - 1) \o << e >> \o SubSeq(s, p, Len(s))

\* the gateway call that has just settled is a successful analysis
AnalysisSucceeded ==
    /\ lastReply # Null
    /\ lastReply.kind = "analyze"
    /\ lastReply.outcome.ok

\* C15: the leaderboard is updated before ANALYZING -> RESULT.  When the
\* analysis of a session succeeds, one entry with the logged-in username and
\* the report's score is put into the leaderboard as it stands at that moment,
\* the first ten entries are kept and stored; the state becomes RESULT only
\* from ANALYZING, after that update, which the transition leaves alone; and
\* the leaderboard changes at no other moment of a run, so a session records
\* at most one entry.
C15_RecordBeforeResult ==
    /\ [][lastReply' # lastReply /\ AnalysisSucceeded' =>
             /\ lastReply = Null
             /\ state = "ANALYZING" /\ state' = "ANALYZING"
             /\ lastReply'.id[1] = sessions
             /\ report' = lastReply'.outcome.value
             /\ LET e == [id |-> <<"rnd", sessions>>, username |-> username,
                           score |-> report'.score, date |-> now]
                IN  \E p \in 1..(Len(leaderboard) + 1) :
                       leaderboard' = Slice(InsertAt(leaderboard, p, e), 10)
             /\ storage' = JsonStringify(leaderboard')]_vars
    /\ [][state' = "RESULT" /\ state # "RESULT" =>
             /\ state = "ANALYZING"
             /\ AnalysisSucceeded
             /\ lastReply.id[1] = sessions
             /\ report = lastReply.outcome.value
             /\ storage = JsonStringify(leaderboard)
             /\ UNCHANGED << leaderboard, storage, report >>]_vars
    /\ [][leaderboard' # leaderboard /\ mounted /\ mounted' =>
             lastReply' # lastReply /\ AnalysisSucceeded']_vars

\* the report of a second session is on screen and the entries of both
\* sessions are on the leaderboard
C15_Witness ==
    /\ state = "RESULT"
    /\ sessions = 2
    /\ \E i, j \in 1..Len(leaderboard) :
          /\ leaderboard[i].id = <<"rnd", 1>>
          /\ leaderboard[j].id = <<"rnd", 2>>
          /\ leaderboard[j].score = report.score

\* the gateway calls a step issues
Issued == calls' \ calls

\* C16: no gateway call is issued but by the user.  Choosing a question count
\* in MENU issues exactly one generation call, with that count; the final
\* answer issues exactly one analysis call; nothing else issues a call, a
\* failing call leaves none outstanding, and the first call issued after a
\* failure is the generation call of a new assessment started from MENU.
C16_NoAutomaticRetry ==
    /\ [][state = "MENU" /\ state' = "GENERATING" =>
             /\ Cardinality(Issued) = 1
             /\ sessions' = sessions + 1
             /\ \A c \in Issued :
                   c.kind = "generate" /\ c.count \in QuestionCount]_vars
    /\ [][state = "ASSESSMENT" /\ state' = "ANALYZING" =>
             /\ Cardinality(Issued) = 1
             /\ \A c \in Issued : c.kind = "analyze"]_vars
    /\ [][Issued # {} =>
             \/ state = "MENU" /\ state' = "GENERATING"
             \/ state = "ASSESSMENT" /\ state' = "ANALYZING"]_vars
    /\ [][lastReply' # lastReply /\ lastReply' # Null /\ ~lastReply'.outcome.ok =>
             calls' = {}]_vars
    /\ [](state = "ERROR" => calls = {})
    /\ [][Issued # {} /\ lastReply # Null /\ ~lastReply.outcome.ok =>
             /\ state = "MENU"
             /\ \A c \in Issued : c.kind = "generate"]_vars

\* the analysis of a first session failed, the user went back to the menu and
\* started a second assessment, whose generation call is the one outstanding
C16_Witness ==
    /\ state = "GENERATING"
    /\ sessions = 2
    /\ report = Null
    /\ answers # << >>
    /\ \E c \in calls : c.id = << 2, "generate" >>
    /\ Cardinality(calls) = 1

\* C17: whenever a generation call for count questions succeeds on a non-empty
\* payload, the question set stored in the session has exactly count questions
\* and each of them has exactly 4 options.
C17_CountQuestionsFourOptions ==
    [][\A c \in calls \ calls' :
          (/\ c.kind = "generate"
           /\ lastReply' # Null
           /\ lastReply'.outcome.ok
           /\ lastReply'.outcome.value # << >>)
          => /\ Len(questions') = c.count
             /\ \A i \in 1..Len(questions') : Len(questions'[i].options) = 4]_vars

\* a gateway call settles in this step
Settles == lastReply' # lastReply /\ lastReply' # Null

\* C18: the progress value is set to 100 in the step in which a gateway call
\* resolves, and in no other step, so once per successful call; GENERATING ->
\* ASSESSMENT and ANALYZING -> RESULT happen only after that, at a progress
\* value of 100; a failing call leaves the progress value, which is at most 90,
\* as it was, also through the transition to ERROR.
C18_ProgressForcedOnce ==
    /\ [][Settles /\ lastReply'.outcome.ok =>
             /\ loadingProgress <= 90
             /\ loadingProgress' = 100]_vars
    /\ [][loadingProgress' = 100 /\ loadingProgress # 100 =>
             Settles /\ lastReply'.outcome.ok]_vars
    /\ [][state # state' /\ state' \in { "ASSESSMENT", "RESULT" } =>
             /\ << state, state' >> \in { <<"GENERATING", "ASSESSMENT">>,
                                          <<"ANALYZING", "RESULT">> }
             /\ lastReply # Null
             /\ lastReply.outcome.ok
             /\ loadingProgress = 100
             /\ loadingProgress' = 100]_vars
    /\ [][Settles /\ ~lastReply'.outcome.ok =>
             /\ state' = "ERROR"
             /\ loadingProgress <= 90
             /\ loadingProgress' = loadingProgress]_vars
    /\ [][state = "ERROR" => loadingProgress' = loadingProgress]_vars

\* a first session went through both transitions and the analysis of a second
\* one failed while the progress value stood between 1 and 90, where it is left
C18_Witness ==
    /\ state = "ERROR"
    /\ sessions = 2
    /\ report # Null
    /\ lastReply.kind = "analyze"
    /\ loadingProgress \in 1..90

\* C19: while a gateway call has neither resolved nor rejected the state is
\* GENERATING or ANALYZING, the ticker of the call is running, no timer is
\* pending and the progress value is at most 90; and a step that leaves the
\* call unsettled is a tick: it changes nothing but the progress value.  So a
\* call that never settles keeps the application in its loading state for ever.
C19_HangingCallKeepsLoading ==
    /\ [](calls # {} =>
             /\ state \in Loading
             /\ timeouts = {}
             /\ loadingProgress <= 90
             /\ \A c \in calls :
                   /\ c.interval \in intervals
                   /\ state = IF c.kind = "generate" THEN "GENERATING"
                                                     ELSE "ANALYZING")
    /\ [][calls # {} /\ calls' = calls =>
             /\ loadingProgress' >= loadingProgress
             /\ UNCHANGED << state, username, questions, answers,
                             currentQuestionIndex, report, errorMsg,
                             leaderboard, storage, intervals, timeouts >>]_vars

\* a generation call is still unsettled after its ticker has taken the progress
\* value to the ceiling
C19_Witness ==
    /\ state = "GENERATING"
    /\ \E c \in calls : c.kind = "generate" /\ c.interval \in intervals
    /\ loadingProgress = 90

\* the positions of a board that hold the entry with the given id
PositionsOf(board, id) == { i \in 1..Len(board) : board[i].id = id }

\* the board without the entry at position p
RemoveAt(board, p) == SubSeq(board, 1, p - 1) \o SubSeq(board, p + 1, Len(board))

\* C20: a record breaks ties by insertion order.  The new entry, when it is
\* kept, stands behind every entry whose score is at least its own and in
\* front of every entry with a lower score, and the other entries are the old
\* board's, in the old order, from its top.  On a board of fewer than 10
\* entries the new entry is kept.  On a board of 10, a new entry whose score is
\* at most the 10th entry's is not kept and the board stays as it was; one with
\* a higher score is kept and the old 10th entry goes.
C20_TiesByInsertionOrder ==
    [][lastReply' # lastReply /\ AnalysisSucceeded' =>
          LET old == leaderboard
              new == leaderboard'
              score == lastReply'.outcome.value.score
              at == PositionsOf(new, << "rnd", sessions >>)
          IN  /\ Cardinality(at) <= 1
              /\ \A p \in at :
                    /\ new[p].score = score
                    /\ \A i \in 1..(p - 1) : new[i].score >= score
                    /\ \A i \in (p + 1)..Len(new) : new[i].score < score
                    /\ RemoveAt(new, p) = SubSeq(old, 1, Len(new) - 1)
              /\ at = {} => new = old
              /\ Len(old) < 10 => at # {} /\ Len(new) = Len(old) + 1
              /\ Len(old) = 10 /\ score <= old[10].score => at = {}
              /\ Len(old) = 10 /\ score > old[10].score =>
                    /\ at # {}
                    /\ Len(new) = 10
                    /\ PositionsOf(new, old[10].id) = {}]_vars

\* on a full board a first session scored 85 and stands behind the two older
\* entries with 85, the old last entry gone; a second session scored 80, the
\* score of the 10th entry, and is not on the board
C20_Witness ==
    /\ Len(leaderboard) = 10
    /\ sessions = 2
    /\ PositionsOf(leaderboard, << "rnd", 1 >>) = { 9 }
    /\ leaderboard[7].score = 85
    /\ leaderboard[8].score = 85
    /\ leaderboard[9].score = 85
    /\ leaderboard[10].score = 80
    /\ AnalysisSucceeded
    /\ lastReply.id[1] = 2
    /\ lastReply.outcome.value.score = 80
    /\ PositionsOf(leaderboard, << "rnd", 2 >>) = {}

\* C21: from BOOTING the application always reaches AUTH, by the boot timer
\* alone: while the state is BOOTING no step changes the username, the
\* questions, the answers, the index, the report, the error message or the
\* gateway calls, and the only change of the lifecycle state is the boot
\* timer's, to AUTH.
C21_BootReachesAuth ==
    /\ (state = "BOOTING") ~> (state = "AUTH")
    /\ [][state = "BOOTING" =>
             /\ UNCHANGED << username, questions, answers, currentQuestionIndex,
                             report, errorMsg, sessions, calls >>
             /\ state' # state =>
                   /\ state' = "AUTH"
                   /\ [id |-> <<0, "boot">>, to |-> "AUTH"] \in timeouts \ timeouts'
                   /\ UNCHANGED << leaderboard, storage >>]_vars

\* the boot timer has fired: the login form is up, nothing typed, no timer left
C21_Witness ==
    /\ state = "AUTH"
    /\ mounted
    /\ timeouts = {}
    /\ username = << >>
    /\ sessions = 0

\* C22: the time base is set to the clock reading in the step that enters
\* ASSESSMENT and in every step that changes the index within ASSESSMENT, and
\* is left alone while a question stays on screen; every answer recorded
\* carries the clock reading less the time base, which is not negative.  So
\* timeTaken is the time the answered question was on screen, without the time
\* spent on earlier questions, in GENERATING or in an earlier session.
C22_TimeTakenOfCurrentQuestion ==
    /\ [][state' = "ASSESSMENT" /\ (state # "ASSESSMENT" \/
                                     currentQuestionIndex' # currentQuestionIndex)
             => questionStartTime' = now']_vars
    /\ [][state = "ASSESSMENT" /\ state' = "ASSESSMENT"
             /\ currentQuestionIndex' = currentQuestionIndex
             => questionStartTime' = questionStartTime]_vars
    /\ [][answers' # answers /\ answers' # << >> =>
             /\ state = "ASSESSMENT"
             /\ answers'[Len(answers')].timeTaken = now - questionStartTime
             /\ answers'[Len(answers')].timeTaken >= 0]_vars
    /\ [](state = "ASSESSMENT" => questionStartTime <= now)

\* the first question was on screen for one unit of time and the second was
\* answered at once
C22_Witness ==
    /\ Len(answers) = 2
    /\ answers[1].timeTaken = 1
    /\ answers[2].timeTaken = 0

\* C23: whenever the state is ASSESSMENT the question sequence is not empty,
\* the index is below its length, a question is on screen and an answer can be
\* given.
C23_AssessmentHasCurrentQuestion ==
    state = "ASSESSMENT" =>
        /\ Len(questions) > 0
        /\ currentQuestionIndex < Len(questions)
        /\ DisplayedQuestion # Null
        /\ ENABLED (\E option \in {"x", "y"} : HandleAnswer(option))

\* C24: once the load has run, the stored collection decodes to the
\* leaderboard held in the state, in every state; a step that writes storage
\* writes the text of the whole new leaderboard; and after the load only the
\* recording of a successful analysis changes the leaderboard or storage.
C24_StoredEqualsInMemory ==
    /\ [](mounted => storage # Null /\ JsonParse(storage) = leaderboard)
    /\ [][storage' # storage => storage' = JsonStringify(leaderboard')]_vars
    /\ [][mounted /\ mounted' /\ (leaderboard' # leaderboard \/ storage' # storage)
             => lastReply' # lastReply /\ AnalysisSucceeded']_vars

\* a session was recorded, the page was reloaded and the user is back in the
\* menu: no report is held, and the session's entry is on the board that was
\* loaded from storage
C24_Witness ==
    /\ state = "MENU"
    /\ sessions = 1
    /\ report = Null
    /\ PositionsOf(leaderboard, << "rnd", 1 >>) # {}
    /\ JsonParse(storage) = leaderboard

\* C25: a failed session leaves the leaderboard as it was.  The step in which
\* a generation call or an analysis call fails changes neither the leaderboard
\* nor storage nor the report; no step taken in ERROR, the return to MENU
\* included, changes them; and from the start of a session on, no step but the
\* recording of a successful analysis changes the leaderboard or storage, so
\* the menu after a failed session holds the leaderboard it held before.
C25_FailureKeepsLeaderboard ==
    /\ [][Settles /\ ~lastReply'.outcome.ok =>
             /\ state' = "ERROR"
             /\ UNCHANGED << leaderboard, storage, report >>]_vars
    /\ [][state = "ERROR" /\ mounted' =>
             UNCHANGED << leaderboard, storage, report >>]_vars
    /\ [][/\ state \in { "MENU", "GENERATING", "ASSESSMENT", "ANALYZING" }
          /\ mounted'
          /\ ~(Settles /\ AnalysisSucceeded')
          => UNCHANGED << leaderboard, storage, report >>]_vars

\* a first session was recorded, the analysis of a second one failed, and the
\* user is back in the menu: the board holds the first session's entry and
\* none of the second, and the first session's report is still held
C25_Witness ==
    /\ state = "MENU"
    /\ sessions = 2
    /\ lastReply # Null
    /\ lastReply.kind = "analyze"
    /\ ~lastReply.outcome.ok
    /\ report # Null
    /\ PositionsOf(leaderboard, << "rnd", 1 >>) # {}
    /\ PositionsOf(leaderboard, << "rnd", 2 >>) = {}
    /\ storage = JsonStringify(leaderboard)

====
